---- MODULE Spec2Model ----
(***************************************************************************)
(* Model of server.py: the breakfast quote-and-confirm workflow.           *)
(*                                                                         *)
(* Shared state: the reservations file (a list of dicts), the in-memory    *)
(* QUOTES dict and the wall clock.  Each tool call runs in a request       *)
(* worker.  lookup_reservation and quote_add_breakfast are one step each;  *)
(* confirm_add_breakfast is three steps, split at its blocking call to the *)
(* payment gateway: the validation before it, the charge, and the commit   *)
(* after it.  Calls of different workers interleave between those steps.   *)
(*                                                                         *)
(* Strings that the code strips are modelled as tuples of one-character    *)
(* strings, dicts as functions from key names to values, Optional values   *)
(* as sequences of length 0 (None) or 1.                                   *)
(***************************************************************************)
EXTENDS Integers, Sequences, FiniteSets, TLC

\* ---------------------------------------------------------------- bounds
MaxQuotes == 2
MaxTicks == 2
MaxCalls == 3

\* ------------------------------------------------------ program constants
QUOTE_TTL_SECONDS == 15 * 60
AmountMin == 10
AmountMax == 99

Procs == {1, 2}

None == <<>>
Some(x) == <<x>>

\* ----------------------------------------------------------- str helpers
Digits == <<"0", "1", "2", "3", "4", "5", "6", "7", "8", "9">>

\* str(n) for n >= 0
RECURSIVE IntToStr(_)
IntToStr(n) ==
    IF n < 10 THEN <<Digits[n + 1]>>
    ELSE IntToStr(n \div 10) \o <<Digits[(n % 10) + 1]>>

IsSpace(c) == c = " "

RECURSIVE LStrip(_)
LStrip(s) ==
    IF s = <<>> THEN s
    ELSE IF IsSpace(Head(s)) THEN LStrip(Tail(s)) ELSE s

RECURSIVE RStrip(_)
RStrip(s) ==
    IF s = <<>> THEN s
    ELSE IF IsSpace(s[Len(s)]) THEN RStrip(SubSeq(s, 1, Len(s) - 1)) ELSE s

\* str.strip()
Strip(s) == RStrip(LStrip(s))

\* ---------------------------------------------------------- dict helpers
\* d.get(k, default)
Get(d, k, default) == IF k \in DOMAIN d THEN d[k] ELSE default

\* {**r, **patch}: the patch's keys win, every other key of r is kept
Merge_PatchOnly(r, patch) == patch
Merge(r, patch) ==
    [k \in (DOMAIN r) \cup (DOMAIN patch) |->
        IF k \in DOMAIN patch THEN patch[k] ELSE r[k]]

\* QUOTES.pop(qid, None)
Pop_Clear(quotes, id) == <<>>
Pop(quotes, id) == [k \in (DOMAIN quotes) \ {id} |-> quotes[k]]

\* bool(r.get("has_breakfast"))
HasBreakfast_Never(r) == FALSE
HasBreakfast(r) == Get(r, "has_breakfast", FALSE) = TRUE

\* ------------------------------------------------------ reservation file
\* _find_reservation, on the list that _load_reservations returns
MatchingIndexes(rn, reservations) ==
    {i \in 1..Len(reservations) :
        Strip(Get(reservations[i], "reservation_number", <<>>)) = rn}

FirstIndex(S) == CHOOSE i \in S : \A j \in S : i <= j

_find_reservation_First(reservation_number, reservations) ==
    IF reservations = <<>> THEN None ELSE Some(reservations[1])

_find_reservation(reservation_number, reservations) ==
    LET rn == Strip(reservation_number)
        hits == MatchingIndexes(rn, reservations)
    IN  IF rn = <<>> THEN None
        ELSE IF hits = {} THEN None
        ELSE Some(reservations[FirstIndex(hits)])

\* _update_reservation: the Optional it returns and the file it leaves
_update_reservation_Upsert(reservation_number, patch, reservations) ==
    LET rn == Strip(reservation_number)
        hits == MatchingIndexes(rn, reservations)
        fresh == Merge([reservation_number |-> rn], patch)
    IN  IF rn = <<>> THEN [updated |-> None, reservations |-> reservations]
        ELSE IF hits = {}
             THEN [updated |-> Some(fresh),
                   reservations |-> Append(reservations, fresh)]
        ELSE LET i == FirstIndex(hits)
                 merged == Merge(reservations[i], patch)
             IN  [updated |-> Some(merged),
                  reservations |-> [reservations EXCEPT ![i] = merged]]

_update_reservation_NoSave(reservation_number, patch, reservations) ==
    LET rn == Strip(reservation_number)
        hits == MatchingIndexes(rn, reservations)
    IN  IF rn = <<>> \/ hits = {}
        THEN [updated |-> None, reservations |-> reservations]
        ELSE [updated |-> Some(Merge(reservations[FirstIndex(hits)], patch)),
              reservations |-> reservations]

_update_reservation(reservation_number, patch, reservations) ==
    LET rn == Strip(reservation_number)
        hits == MatchingIndexes(rn, reservations)
    IN  IF rn = <<>> THEN [updated |-> None, reservations |-> reservations]
        ELSE IF hits = {} THEN [updated |-> None, reservations |-> reservations]
        ELSE LET i == FirstIndex(hits)
                 merged == Merge(reservations[i], patch)
             IN  [updated |-> Some(merged),
                  reservations |-> [reservations EXCEPT ![i] = merged]]

\* ------------------------------------------------------------ quote dict
\* the ids _cleanup_quotes collects in `expired`
Expired_AtTTL(quotes, t) ==
    {id \in DOMAIN quotes : t - quotes[id].created_at >= QUOTE_TTL_SECONDS}

Expired(quotes, t) ==
    {id \in DOMAIN quotes : t - quotes[id].created_at > QUOTE_TTL_SECONDS}

_cleanup_quotes_Noop(quotes, t) == quotes
_cleanup_quotes(quotes, t) ==
    [id \in (DOMAIN quotes) \ Expired(quotes, t) |-> quotes[id]]

\* f"q_{uuid.uuid4().hex[:10]}": the n-th id drawn, distinct from the others
QuoteId(n) == <<"q", "_">> \o IntToStr(n)

\* random.randint(10, 99)
Amounts == {AmountMin, AmountMax}

\* ------------------------------------------------------- payment gateway
\* what the two HTTP calls of charge_payment_api can do
GatewayOutcomes == {"ok", "token_error", "transport_error", "http_error"}

\* the payment payload posted to the authorization endpoint
PaymentPayload(reservation_number, amount, currency, quote_id) ==
    [value |-> IntToStr(amount), currencyCode |-> <<"E", "U", "R">>,
     method |-> "CARD"]

\* response.json()["data"]["reference"]: the gateway's k-th reference
Reference(k) == <<"p", "a", "y">> \o IntToStr(k)

\* charge_payment_api: it returns (True, reference) or raises; `sent` is the
\* payload that reached the authorization endpoint, if any
charge_payment_api(reservation_number, amount, currency, quote_id, outcome, k) ==
    IF outcome = "token_error"
    THEN [raised |-> TRUE, success |-> FALSE, value |-> <<>>, sent |-> None]
    ELSE IF outcome # "ok"
    THEN [raised |-> TRUE, success |-> FALSE, value |-> <<>>,
          sent |-> Some(PaymentPayload(reservation_number, amount, currency, quote_id))]
    ELSE [raised |-> FALSE, success |-> TRUE, value |-> Reference(k),
          sent |-> Some(PaymentPayload(reservation_number, amount, currency, quote_id))]

\* ------------------------------------------------------------------ state
VARIABLES
    store,      \* reservations.json: the list _load_reservations returns
    QUOTES,     \* the module-level QUOTES dict: quote_id -> quote
    loc,        \* per request worker: the running confirm call's position and locals
    returned,   \* history: what the call that returned last returned
    payments,   \* history: the charges the gateway has captured, in order
    issued,     \* history: how many quote ids have been drawn
    swept,      \* history: the quote ids an expiry sweep removed
    consumed,   \* history: the quote ids a confirmation popped from QUOTES
    ticks,      \* how often the clock has been seen to advance
    calls       \* how many tool calls have begun

vars == <<store, QUOTES, loc, returned, payments, issued, swept, consumed,
          ticks, calls>>

\* int(time.time()) after k advances: the clock is read at 0, and then
\* alternately a full TTL and one second later
Clock(k) == ((k + 1) \div 2) * QUOTE_TTL_SECONDS + (k \div 2)
now == Clock(ticks)

\* a worker that is not inside confirm_add_breakfast
Idle == [pc |-> "idle", rn |-> <<>>, qid |-> <<>>, q |-> None, ref |-> <<>>]

\* the worker that takes the next call: the workers are interchangeable, so
\* it is the lowest-numbered one that is not inside a call
Free(p) ==
    /\ loc[p].pc = "idle"
    /\ \A o \in Procs : loc[o].pc = "idle" => p <= o

\* a tool's return value: the tool, the outcome its message names, and the
\* quote id the call was about (kept when the call rejected the quote)
Result(op, result) == [op |-> op, result |-> result, qid |-> <<>>]

\* reservations.json as the server finds it
InitialStore ==
    << [reservation_number |-> <<"A">>, guest_name |-> "Ann",
        has_breakfast |-> FALSE],
       [reservation_number |-> <<"B", " ">>, guest_name |-> "Bob"] >>

\* the reservation_number arguments the tools are called with
ReservationInputs ==
    {<<"A">>, <<" ", "A">>, <<"B">>, <<"C">>, <<>>, <<" ">>}

\* the quote_id arguments confirm_add_breakfast is called with
QuoteIdInputs ==
    {QuoteId(n) : n \in 1..MaxQuotes} \cup {<<" ">> \o QuoteId(1), <<>>}

Init ==
    /\ store = InitialStore
    /\ QUOTES = <<>>
    /\ loc = [p \in Procs |-> Idle]
    /\ returned = Result("none", "none")
    /\ payments = <<>>
    /\ issued = 0
    /\ swept = {}
    /\ consumed = {}
    /\ ticks = 0
    /\ calls = 0

\* ------------------------------------------------------------ environment
\* time passes
Tick ==
    /\ ticks < MaxTicks
    /\ ticks' = ticks + 1
    /\ UNCHANGED <<store, QUOTES, loc, returned, payments, issued, swept, consumed,
                   calls>>

\* a record is removed from reservations.json from outside the server
ExternalDelete ==
    /\ \E i \in 1..Len(store) :
          store' = SubSeq(store, 1, i - 1) \o SubSeq(store, i + 1, Len(store))
    /\ UNCHANGED <<QUOTES, loc, returned, payments, issued, swept, consumed, ticks,
                   calls>>

\* ------------------------------------------------------ lookup_reservation
\* lines 307-327: the outcome for a reservation_number argument
LookupOutcome(reservation_number, reservations) ==
    LET rn == Strip(reservation_number)
    IN  IF rn = <<>> THEN "InvalidInput"
        ELSE IF _find_reservation(rn, reservations) = None THEN "NotFound"
        ELSE "Found"

lookup_reservation(p) ==
    /\ Free(p)
    /\ calls < MaxCalls
    /\ calls' = calls + 1
    /\ \E reservation_number \in ReservationInputs :
          returned' = Result("lookup", LookupOutcome(reservation_number, store))
    /\ UNCHANGED <<store, QUOTES, loc, payments, issued, swept, consumed, ticks>>

\* ----------------------------------------------------- quote_add_breakfast
\* lines 337-348: the outcome before a quote is drawn
QuoteOutcome_AlwaysQuoted(reservation_number, reservations) == "Quoted"
QuoteOutcome(reservation_number, reservations) ==
    LET rn == Strip(reservation_number)
        r == _find_reservation(rn, reservations)
    IN  IF r = None THEN "ReservationNotFound"
        ELSE IF HasBreakfast(r[1]) THEN "AlreadyApplied"
        ELSE "Quoted"

\* lines 350-360: the quote stored under quote_id
NewQuote(quote_id, amount, rn, t) ==
    [quote_id |-> quote_id,
     amount |-> amount,
     currency |-> <<"G", "B", "P">>,
     item |-> "breakfast",
     reservation_number |-> rn,
     created_at |-> t]

\* QUOTES[quote_id] = quote
Put_Only(quotes, id, quote) == [k \in {id} |-> quote]
Put(quotes, id, quote) ==
    [k \in (DOMAIN quotes) \cup {id} |-> IF k = id THEN quote ELSE quotes[k]]

quote_add_breakfast(p) ==
    /\ Free(p)
    /\ calls < MaxCalls
    /\ calls' = calls + 1
    /\ issued < MaxQuotes
    /\ \E reservation_number \in ReservationInputs, amount \in Amounts :
          LET live == _cleanup_quotes(QUOTES, now)
              outcome == QuoteOutcome(reservation_number, store)
              quote_id == QuoteId(issued + 1)
          IN  /\ swept' = swept \cup ((DOMAIN QUOTES) \ (DOMAIN live))
              /\ returned' = Result("quote", outcome)
              /\ IF outcome = "Quoted"
                 THEN /\ QUOTES' = Put(live, quote_id,
                                       NewQuote(quote_id, amount,
                                                Strip(reservation_number), now))
                      /\ issued' = issued + 1
                 ELSE /\ QUOTES' = live
                      /\ UNCHANGED issued
    /\ UNCHANGED <<store, loc, payments, consumed, ticks>>

\* --------------------------------------------------- confirm_add_breakfast
\* q.get("reservation_number") != rn
QuoteMatches_Always(q, rn) == TRUE
QuoteMatches(q, rn) == Get(q, "reservation_number", <<>>) = rn

\* lines 385-414: where the validation ends, "charge" when it passes
ConfirmValidation(reservation_number, quote_id, reservations, quotes) ==
    LET rn == Strip(reservation_number)
        qid == Strip(quote_id)
        r == _find_reservation(rn, reservations)
    IN  IF r = None THEN "ReservationNotFound"
        ELSE IF HasBreakfast(r[1]) THEN "AlreadyApplied"
        ELSE IF qid \notin DOMAIN quotes THEN "QuoteNotFound"
        ELSE IF ~QuoteMatches(quotes[qid], rn) THEN "QuoteMismatch"
        ELSE "charge"

\* lines 383-417: sweep, lookup, guard, quote validation
ConfirmValidate(p) ==
    /\ Free(p)
    /\ calls < MaxCalls
    /\ calls' = calls + 1
    /\ \E reservation_number \in ReservationInputs, quote_id \in QuoteIdInputs :
          LET live == _cleanup_quotes(QUOTES, now)
              rn == Strip(reservation_number)
              qid == Strip(quote_id)
              outcome == ConfirmValidation(reservation_number, quote_id,
                                           store, live)
          IN  /\ QUOTES' = live
              /\ swept' = swept \cup ((DOMAIN QUOTES) \ (DOMAIN live))
              /\ IF outcome = "charge"
                 THEN /\ loc' = [loc EXCEPT ![p] =
                             [Idle EXCEPT !.pc = "charge", !.rn = rn,
                                          !.qid = qid, !.q = Some(live[qid])]]
                      /\ UNCHANGED returned
                 ELSE /\ returned' =
                             [Result("confirm", outcome) EXCEPT
                                 !.qid = IF outcome \in {"QuoteNotFound",
                                                          "QuoteMismatch"}
                                         THEN qid ELSE <<>>]
                      /\ UNCHANGED loc
    /\ UNCHANGED <<store, payments, issued, consumed, ticks>>

\* lines 419-429: the charge; an exception of charge_payment_api leaves
\* confirm_add_breakfast as it is raised
ConfirmCharge(p) ==
    /\ loc[p].pc = "charge"
    /\ \E outcome \in GatewayOutcomes :
          LET res == charge_payment_api(loc[p].rn, loc[p].q[1].amount,
                                        loc[p].q[1].currency, loc[p].qid,
                                        outcome, Len(payments) + 1)
          IN  /\ payments' =
                    IF outcome = "ok"
                    THEN Append(payments,
                                [reservation_number |-> loc[p].rn,
                                 quote_id |-> loc[p].qid,
                                 reference |-> Reference(Len(payments) + 1)])
                    ELSE payments
              /\ IF res.raised
                 THEN /\ returned' = Result("confirm", "Fault")
                      /\ loc' = [loc EXCEPT ![p] = Idle]
                 ELSE IF ~res.success
                 THEN /\ returned' = Result("confirm", "PaymentFailed")
                      /\ loc' = [loc EXCEPT ![p] = Idle]
                 ELSE /\ loc' = [loc EXCEPT ![p].pc = "commit",
                                            ![p].ref = res.value]
                      /\ UNCHANGED returned
    /\ UNCHANGED <<store, QUOTES, issued, swept, consumed, ticks,
                   calls>>

\* the patch of lines 433-443
AmendmentPatch_NoReference(payment_id, amount, currency, qid, t) ==
    [has_breakfast |-> TRUE,
     last_payment_id |-> <<>>,
     last_amendment |-> [type |-> "add_breakfast", amount |-> amount,
                         currency |-> currency, quote_id |-> qid,
                         timestamp |-> t]]

AmendmentPatch(payment_id, amount, currency, qid, t) ==
    [has_breakfast |-> TRUE,
     last_payment_id |-> payment_id,
     last_amendment |-> [type |-> "add_breakfast", amount |-> amount,
                         currency |-> currency, quote_id |-> qid,
                         timestamp |-> t]]

\* `if not updated`
UpdateFailed_Never(updated) == FALSE
UpdateFailed(updated) == updated = None

\* lines 431-464: _update_reservation, the check of what it returned, and
\* the consumption of the quote
ConfirmCommit(p) ==
    /\ loc[p].pc = "commit"
    /\ LET q == loc[p].q[1]
           u == _update_reservation(
                    loc[p].rn,
                    AmendmentPatch(loc[p].ref, q.amount, q.currency,
                                   loc[p].qid, now),
                    store)
       IN  /\ store' = u.reservations
           /\ IF UpdateFailed(u.updated)
              THEN /\ returned' = Result("confirm", "UpdateFailedAfterPayment")
                   /\ UNCHANGED <<QUOTES, consumed>>
              ELSE /\ returned' = Result("confirm", "Success")
                   /\ QUOTES' = Pop(QUOTES, loc[p].qid)
                   /\ consumed' = consumed \cup {loc[p].qid}
    /\ loc' = [loc EXCEPT ![p] = Idle]
    /\ UNCHANGED <<payments, issued, swept, ticks,
                   calls>>

\* ----------------------------------------------------------- specification
Next ==
    \/ Tick
    \/ ExternalDelete
    \/ \E p \in Procs : lookup_reservation(p)
    \/ \E p \in Procs : quote_add_breakfast(p)
    \/ \E p \in Procs : ConfirmValidate(p)
    \/ \E p \in Procs : ConfirmCharge(p)
    \/ \E p \in Procs : ConfirmCommit(p)

Spec == Init /\ [][Next]_vars

\* ------------------------------------------------------- shared by claims
\* the ledger as a call beginning now sees it after its sweep
Live == _cleanup_quotes(QUOTES, now)

\* the record the file holds for rn, by its stripped number
Records(rn) ==
    {i \in 1..Len(store) :
        /\ "reservation_number" \in DOMAIN store[i]
        /\ Strip(store[i].reservation_number) = rn}

\* a quote id no quote_add_breakfast call has drawn
NeverIssued == QuoteId(issued + 1)

\* the step is worker p's confirm_add_breakfast returning from its validation
ValidationReturns(result) ==
    /\ calls' = calls + 1
    /\ loc' = loc
    /\ returned'.op = "confirm"
    /\ returned'.result = result

\* the step is worker p's commit (update and consumption)
CommitStep(p) == loc[p].pc = "commit" /\ loc'[p].pc = "idle"

\* the step is worker p's charge
ChargeStep(p) == loc[p].pc = "charge" /\ loc'[p].pc # "charge"

\* ------------------------------------------------------------------ claims

\* C1: under any interleaving of concurrent confirm_add_breakfast calls for
\* the same reservation, at most one payment is captured for it.
C1_AtMostOnePaymentPerReservation ==
    \A k1, k2 \in 1..Len(payments) :
        payments[k1].reservation_number = payments[k2].reservation_number
            => k1 = k2

\* C2: a quote is confirmed successfully at most once, and after a
\* successful confirmation a confirm call with the same quote id and the
\* quote's reservation ends in QuoteNotFound.
C2_SuccessOnceThenQuoteNotFound ==
    /\ [][\A p \in Procs :
            (CommitStep(p) /\ returned'.result = "Success")
                => loc[p].qid \notin consumed]_vars
    /\ [](\A k \in 1..Len(payments) :
            payments[k].quote_id \in consumed
                => ConfirmValidation(payments[k].reservation_number,
                                     payments[k].quote_id, store, Live)
                       = "QuoteNotFound")

\* C3: a confirm call for a reservation whose has_breakfast is true returns
\* the already-included no-op whatever quote id it is given, and that call
\* charges nothing, leaves the file alone and consumes no quote.
C3_AlreadyAppliedIsNoOp ==
    /\ [](\A reservation_number \in ReservationInputs, quote_id \in QuoteIdInputs :
            (\E i \in Records(Strip(reservation_number)) :
                /\ i = FirstIndex(Records(Strip(reservation_number)))
                /\ "has_breakfast" \in DOMAIN store[i]
                /\ store[i].has_breakfast = TRUE)
                => ConfirmValidation(reservation_number, quote_id, store, Live)
                       = "AlreadyApplied")
    /\ [][ValidationReturns("AlreadyApplied")
            => /\ UNCHANGED <<store, payments, consumed>>
               /\ QUOTES' = [id \in {k \in DOMAIN QUOTES :
                                        now - QUOTES[k].created_at
                                            <= QUOTE_TTL_SECONDS}
                                |-> QUOTES[id]]]_vars

C3_Witness ==
    /\ returned.op = "confirm"
    /\ returned.result = "AlreadyApplied"
    /\ \E i \in 1..Len(store) : Get(store[i], "has_breakfast", FALSE) = TRUE

\* C4: when the gateway fails, the confirm call returns PaymentFailed and
\* leaves the reservation and the quote as they were.
C4_GatewayFailureIsPaymentFailed ==
    [][\A p \in Procs :
          (ChargeStep(p) /\ payments' = payments)
              => /\ returned'.result = "PaymentFailed"
                 /\ UNCHANGED <<store, QUOTES>>]_vars

\* a record for rn is in the file and its breakfast flag is not set
OpenReservation(rn) ==
    /\ rn # <<>>
    /\ Records(rn) # {}
    /\ LET r == store[FirstIndex(Records(rn))]
       IN  ~("has_breakfast" \in DOMAIN r /\ r.has_breakfast = TRUE)

C6_ExpiredQuoteIsUnknownQuote ==
    /\ [](\A reservation_number \in ReservationInputs, quote_id \in QuoteIdInputs :
            LET qid == Strip(quote_id)
            IN  (\/ qid \in swept
                 \/ /\ qid \in DOMAIN QUOTES
                    /\ now - QUOTES[qid].created_at > QUOTE_TTL_SECONDS)
                    => LET out == ConfirmValidation(reservation_number,
                                                    quote_id, store, Live)
                       IN  /\ out = ConfirmValidation(reservation_number,
                                                      NeverIssued, store, Live)
                           /\ out # "charge"
                           /\ OpenReservation(Strip(reservation_number))
                                  => out = "QuoteNotFound")
    /\ [][(calls' = calls + 1 /\ loc' = loc)
            => UNCHANGED <<store, payments>>]_vars

C6_Witness ==
    /\ returned.op = "confirm"
    /\ returned.result = "QuoteNotFound"
    /\ returned.qid \in swept

\* C7: no confirm call ends in an unhandled fault.
C7_NoUnhandledFault == returned.result # "Fault"

\* C8: when the reservation is gone from the file at the update, the call
\* ends in UpdateFailedAfterPayment, the file is not written and the quote
\* is not consumed.
C8_VanishedReservation ==
    [][\A p \in Procs :
          (CommitStep(p) /\ Records(loc[p].rn) = {})
              => /\ returned' = Result("confirm", "UpdateFailedAfterPayment")
                 /\ UNCHANGED <<store, QUOTES, consumed>>]_vars

C8_Witness ==
    /\ returned.result = "UpdateFailedAfterPayment"
    /\ payments # <<>>
    /\ QUOTES # <<>>

\* C9: a confirmation removes a quote only with the update done: the step
\* that consumes quote Q of reservation R leaves R in the file with
\* has_breakfast true and last_amendment.quote_id = Q, and a payment was
\* captured for Q and R.
C9_ConsumedOnlyAfterUpdate ==
    /\ [][\A p \in Procs :
            (CommitStep(p) /\ (consumed' # consumed
                               \/ DOMAIN QUOTES' # DOMAIN QUOTES))
                => /\ \E k \in 1..Len(payments) :
                         /\ payments[k].quote_id = loc[p].qid
                         /\ payments[k].reservation_number = loc[p].rn
                         /\ payments[k].reference = loc[p].ref
                   /\ \E i \in 1..Len(store') :
                         /\ Strip(store'[i].reservation_number) = loc[p].rn
                         /\ store'[i].has_breakfast = TRUE
                         /\ store'[i].last_amendment.quote_id = loc[p].qid
                         /\ store'[i].last_payment_id = loc[p].ref]_vars
    /\ [](\A qid \in consumed :
            \E k \in 1..Len(payments) : payments[k].quote_id = qid)

C9_Witness ==
    /\ consumed # {}
    /\ returned.result = "Success"

\* C10: a successful confirmation writes has_breakfast, last_payment_id and
\* last_amendment (type, amount, currency, quote_id of the quote) into the
\* reservation's record and changes nothing else in the file.
C10_ShallowMergeOfAmendment ==
    [][\A p \in Procs :
          (CommitStep(p) /\ returned'.result = "Success")
              => /\ Records(loc[p].rn) # {}
                 /\ Len(store') = Len(store)
                 /\ LET i == FirstIndex(Records(loc[p].rn))
                        patched == {"has_breakfast", "last_payment_id",
                                    "last_amendment"}
                    IN  /\ \A j \in 1..Len(store) : j # i => store'[j] = store[j]
                        /\ DOMAIN store'[i] = (DOMAIN store[i]) \cup patched
                        /\ \A f \in (DOMAIN store[i]) \ patched :
                              store'[i][f] = store[i][f]
                        /\ store'[i].has_breakfast = TRUE
                        /\ store'[i].last_payment_id = loc[p].ref
                        /\ \E k \in 1..Len(payments) :
                              /\ payments[k].reference = loc[p].ref
                              /\ payments[k].quote_id = loc[p].qid
                        /\ store'[i].last_amendment.type = "add_breakfast"
                        /\ store'[i].last_amendment.amount = loc[p].q[1].amount
                        /\ store'[i].last_amendment.currency = <<"G", "B", "P">>
                        /\ store'[i].last_amendment.quote_id
                              = loc[p].q[1].quote_id]_vars

C10_Witness ==
    /\ returned.result = "Success"
    /\ \E i \in 1..Len(store) :
          /\ Get(store[i], "has_breakfast", FALSE) = TRUE
          /\ "guest_name" \in DOMAIN store[i]
          /\ "last_payment_id" \in DOMAIN store[i]

\* C11: every charge request that confirm_add_breakfast sends to the gateway
\* carries the amount and the currency of the presented quote and the
\* trimmed reservation number the quote is bound to.
C11_ChargeCarriesQuoteAndReservation ==
    [][\A p \in Procs :
          (ChargeStep(p) /\ payments' # payments)
              => LET q == loc[p].q[1]
                     sent == charge_payment_api(loc[p].rn, q.amount, q.currency,
                                                loc[p].qid, "ok",
                                                Len(payments) + 1).sent[1]
                 IN  /\ sent.value = IntToStr(q.amount)
                     /\ sent.currencyCode = q.currency
                     /\ "reservation_number" \in DOMAIN sent
                     /\ sent.reservation_number = q.reservation_number]_vars

\* the step is a quote_add_breakfast call
QuoteStep == calls' = calls + 1 /\ loc' = loc /\ returned'.op = "quote"

\* C12: quote_add_breakfast stores a quote only for a reservation that is in
\* the file with has_breakfast not true; for one with has_breakfast true it
\* returns the already-included no-op, for an unknown one
\* ReservationNotFound, and in both cases the ledger gains no entry.
C12_QuoteOnlyForOpenReservation ==
    /\ [](\A reservation_number \in ReservationInputs :
            LET rn == Strip(reservation_number)
                out == QuoteOutcome(reservation_number, store)
            IN  /\ (rn # <<>> /\ Records(rn) = {}) => out = "ReservationNotFound"
                /\ (Records(rn) # {} /\ ~OpenReservation(rn))
                        => out = "AlreadyApplied"
                /\ out = "Quoted" => OpenReservation(rn))
    /\ [][QuoteStep
            => /\ returned'.result \in {"AlreadyApplied", "ReservationNotFound"}
                    => /\ (DOMAIN QUOTES') \subseteq (DOMAIN QUOTES)
                       /\ issued' = issued
               /\ \A id \in (DOMAIN QUOTES') \ (DOMAIN QUOTES) :
                     /\ returned'.result = "Quoted"
                     /\ OpenReservation(QUOTES'[id].reservation_number)]_vars

C12_Witness ==
    /\ returned.op = "quote"
    /\ returned.result = "AlreadyApplied"
    /\ issued = 1
    /\ \E i \in 1..Len(store) : Get(store[i], "has_breakfast", FALSE) = TRUE

\* C13: a successful confirmation removes the presented quote id from the
\* ledger and nothing else; every other quote, of that reservation or of
\* another, stays in the ledger with its fields unchanged, and no step
\* removes a quote that is neither presented to a successful confirmation
\* nor older than the TTL.
C13_OnlyPresentedQuoteConsumed ==
    /\ [][\A p \in Procs :
            (CommitStep(p) /\ returned'.result = "Success")
                => /\ DOMAIN QUOTES' = (DOMAIN QUOTES) \ {loc[p].qid}
                   /\ \A id \in DOMAIN QUOTES' : QUOTES'[id] = QUOTES[id]]_vars
    /\ [][\A id \in DOMAIN QUOTES :
            \/ /\ id \in DOMAIN QUOTES'
               /\ QUOTES'[id] = QUOTES[id]
            \/ now - QUOTES[id].created_at > QUOTE_TTL_SECONDS
            \/ \E p \in Procs :
                  /\ CommitStep(p)
                  /\ returned'.result = "Success"
                  /\ loc[p].qid = id]_vars

C13_Witness ==
    /\ returned.result = "Success"
    /\ \E gone \in consumed, id \in DOMAIN QUOTES :
          /\ id # gone
          /\ gone \notin DOMAIN QUOTES
          /\ \E i \in 1..Len(store) :
                /\ Strip(store[i].reservation_number)
                      = QUOTES[id].reservation_number
                /\ Get(store[i], "last_amendment", [quote_id |-> <<>>]).quote_id
                      = gone

\* C14 as stated: a confirm call for a reservation number that is absent
\* from the file ends in ReservationNotFound and leaves the payments, the
\* file and the quote ledger unchanged.
C14_AbsentReservationNoSideEffects ==
    [][ValidationReturns("ReservationNotFound")
          => UNCHANGED <<store, payments, QUOTES>>]_vars

\* C14 as amended: a confirm call for a reservation number that is absent
\* from the file ends in ReservationNotFound whatever quote id it is given;
\* it charges nothing, leaves the file alone, consumes no quote, and the
\* only change it makes to the ledger is the removal of the quotes older
\* than the TTL by the sweep that opens the call.
C14_AbsentReservationOnlySweeps ==
    /\ [](\A reservation_number \in ReservationInputs, quote_id \in QuoteIdInputs :
            (Strip(reservation_number) # <<>>
             /\ Records(Strip(reservation_number)) = {})
                => ConfirmValidation(reservation_number, quote_id, store, Live)
                       = "ReservationNotFound")
    /\ [][ValidationReturns("ReservationNotFound")
            => /\ UNCHANGED <<store, payments, consumed, issued>>
               /\ DOMAIN QUOTES' =
                     {id \in DOMAIN QUOTES :
                         now - QUOTES[id].created_at <= QUOTE_TTL_SECONDS}
               /\ \A id \in DOMAIN QUOTES' : QUOTES'[id] = QUOTES[id]]_vars

C14_Witness ==
    /\ returned.op = "confirm"
    /\ returned.result = "ReservationNotFound"
    /\ swept # {}
    /\ QUOTES # <<>>
    /\ payments = <<>>

\* C15: a call of lookup_reservation, quote_add_breakfast or
\* confirm_add_breakfast with a reservation number that is empty after
\* trimming, and a call of confirm_add_breakfast with an empty quote id,
\* returns InvalidInput.
C15_EmptyArgumentIsInvalidInput ==
    /\ \A reservation_number \in ReservationInputs :
          Strip(reservation_number) = <<>>
              => /\ LookupOutcome(reservation_number, store) = "InvalidInput"
                 /\ QuoteOutcome(reservation_number, store) = "InvalidInput"
                 /\ \A quote_id \in QuoteIdInputs :
                       ConfirmValidation(reservation_number, quote_id,
                                         store, Live) = "InvalidInput"
    /\ \A reservation_number \in ReservationInputs, quote_id \in QuoteIdInputs :
          Strip(quote_id) = <<>>
              => ConfirmValidation(reservation_number, quote_id, store, Live)
                     = "InvalidInput"

NextItem(S) ==
    QuoteId(CHOOSE n \in 1..issued :
                /\ QuoteId(n) \in S
                /\ \A m \in 1..issued : QuoteId(m) \in S => n <= m)

\* lines 267-268: `now` is read and the iteration over QUOTES.items() begins;
\* the iterator remembers the size of the dict
SweepBegin(p) ==
    /\ Free(p)
    /\ calls < MaxCalls
    /\ calls' = calls + 1
    /\ loc' = [loc EXCEPT ![p] =
                  [pc |-> "sweep", t |-> now,
                   di_used |-> Cardinality(DOMAIN QUOTES),
                   todo |-> DOMAIN QUOTES, expired |-> {}]]
    /\ UNCHANGED <<store, QUOTES, returned, payments, issued, swept, consumed,
                   ticks>>

\* line 268, one next() of the iterator: it raises RuntimeError when the dict
\* has changed size since the iteration began; at its end lines 270-271 pop
\* the ids collected in `expired`
SweepNext(p) ==
    /\ loc[p].pc = "sweep"
    /\ LET left == loc[p].todo \cap (DOMAIN QUOTES)
       IN  IF Cardinality(DOMAIN QUOTES) # loc[p].di_used
           THEN /\ returned' = Result("sweep", "RuntimeError")
                /\ loc' = [loc EXCEPT ![p] = Idle]
                /\ UNCHANGED <<QUOTES, swept>>
           ELSE IF left = {}
           THEN /\ QUOTES' = [id \in (DOMAIN QUOTES) \ loc[p].expired
                                 |-> QUOTES[id]]
                /\ swept' = swept \cup (loc[p].expired \cap (DOMAIN QUOTES))
                /\ loc' = [loc EXCEPT ![p] = [Idle EXCEPT !.pc = "body"]]
                /\ UNCHANGED returned
           ELSE LET id == NextItem(left)
                    old == loc[p].t - QUOTES[id].created_at > QUOTE_TTL_SECONDS
                IN  /\ loc' = [loc EXCEPT
                                  ![p].todo = loc[p].todo \ {id},
                                  ![p].expired = IF old THEN loc[p].expired \cup {id}
                                                 ELSE loc[p].expired]
                    /\ UNCHANGED <<QUOTES, returned, swept>>
    /\ UNCHANGED <<store, payments, issued, consumed, ticks, calls>>

\* quote_add_breakfast after its sweep, lines 337-372
QuoteBody(p) ==
    /\ loc[p].pc = "body"
    /\ issued < MaxQuotes
    /\ \E reservation_number \in ReservationInputs, amount \in Amounts :
          LET outcome == QuoteOutcome(reservation_number, store)
              quote_id == QuoteId(issued + 1)
          IN  /\ returned' = Result("quote", outcome)
              /\ IF outcome = "Quoted"
                 THEN /\ QUOTES' = Put(QUOTES, quote_id,
                                       NewQuote(quote_id, amount,
                                                Strip(reservation_number), now))
                      /\ issued' = issued + 1
                 ELSE UNCHANGED <<QUOTES, issued>>
    /\ loc' = [loc EXCEPT ![p] = Idle]
    /\ UNCHANGED <<store, payments, swept, consumed, ticks, calls>>

\* confirm_add_breakfast after its sweep, lines 385-417
ConfirmBody(p) ==
    /\ loc[p].pc = "body"
    /\ \E reservation_number \in ReservationInputs, quote_id \in QuoteIdInputs :
          LET rn == Strip(reservation_number)
              qid == Strip(quote_id)
              outcome == ConfirmValidation(reservation_number, quote_id,
                                           store, QUOTES)
          IN  IF outcome = "charge"
              THEN /\ loc' = [loc EXCEPT ![p] =
                          [Idle EXCEPT !.pc = "charge", !.rn = rn,
                                       !.qid = qid, !.q = Some(QUOTES[qid])]]
                   /\ UNCHANGED returned
              ELSE /\ returned' =
                          [Result("confirm", outcome) EXCEPT
                              !.qid = IF outcome \in {"QuoteNotFound",
                                                       "QuoteMismatch"}
                                      THEN qid ELSE <<>>]
                   /\ loc' = [loc EXCEPT ![p] = Idle]
    /\ UNCHANGED <<store, QUOTES, payments, issued, swept, consumed, ticks,
                   calls>>

NextSweep ==
    \/ Tick
    \/ \E p \in Procs : SweepBegin(p)
    \/ \E p \in Procs : SweepNext(p)
    \/ \E p \in Procs : QuoteBody(p)
    \/ \E p \in Procs : ConfirmBody(p)
    \/ \E p \in Procs : ConfirmCharge(p)
    \/ \E p \in Procs : ConfirmCommit(p)

SpecSweep == Init /\ [][NextSweep]_vars

\* C17: the sweep interleaves with quote creation and quote consumption of
\* other requests without faulting and without losing a quote: no call ends
\* in the RuntimeError of a dict that changed size under the iteration, and
\* a step takes a quote out of the ledger only when a successful
\* confirmation consumes it or when it is older than the TTL.
C17_SweepSafeUnderInterleaving ==
    /\ [](returned.result # "RuntimeError")
    /\ [][\A id \in DOMAIN QUOTES :
            \/ id \in DOMAIN QUOTES'
            \/ id \in consumed'
            \/ now - QUOTES[id].created_at > QUOTE_TTL_SECONDS]_vars

\* the step begins a quote_add_breakfast or a confirm_add_breakfast call
SweepingStep ==
    /\ calls' = calls + 1
    /\ loc' # loc \/ returned'.op \in {"quote", "confirm"}

\* C18: a sweep removes exactly the quotes whose age is strictly greater
\* than the TTL and keeps the others with their fields unchanged, and every
\* quote_add_breakfast and confirm_add_breakfast call begins with a sweep:
\* the step that begins the call leaves no quote older than the TTL in the
\* ledger and keeps every quote that is not.
C18_SweepRemovesExactlyExpired ==
    /\ [](LET live == _cleanup_quotes(QUOTES, now)
          IN  /\ DOMAIN live =
                    {id \in DOMAIN QUOTES :
                        now - QUOTES[id].created_at <= QUOTE_TTL_SECONDS}
              /\ \A id \in DOMAIN live : live[id] = QUOTES[id])
    /\ [][SweepingStep
            => \A id \in DOMAIN QUOTES :
                  IF now - QUOTES[id].created_at > QUOTE_TTL_SECONDS
                  THEN id \notin DOMAIN QUOTES' /\ id \in swept'
                  ELSE /\ id \in DOMAIN QUOTES'
                       /\ QUOTES'[id] = QUOTES[id]
                       /\ id \notin swept']_vars

C18_Witness ==
    /\ swept # {}
    /\ \E kept \in DOMAIN QUOTES :
          /\ QUOTES[kept].created_at = QUOTE_TTL_SECONDS
          /\ now - QUOTES[kept].created_at <= QUOTE_TTL_SECONDS
          /\ \E id \in swept : id # kept

\* C19: a quote_add_breakfast call that returns a quote adds exactly one
\* entry to the ledger, under an id that was never in the ledger, bound to
\* the trimmed number of a reservation that is in the file without
\* breakfast; the quotes that are not older than the TTL keep their fields,
\* and the call changes no record and captures no payment.
C19_QuoteAddsOneFreshEntry ==
    [][(QuoteStep /\ returned'.result = "Quoted")
          => /\ UNCHANGED <<store, payments, consumed>>
             /\ \E id \in (DOMAIN QUOTES') \ (DOMAIN QUOTES) :
                   /\ DOMAIN QUOTES' =
                         {k \in DOMAIN QUOTES :
                             now - QUOTES[k].created_at <= QUOTE_TTL_SECONDS}
                         \cup {id}
                   /\ \A k \in (DOMAIN QUOTES') \ {id} : QUOTES'[k] = QUOTES[k]
                   /\ id \notin swept \cup consumed
                   /\ QUOTES'[id].quote_id = id
                   /\ QUOTES'[id].created_at = now
                   /\ QUOTES'[id].amount \in AmountMin..AmountMax
                   /\ LET rn == QUOTES'[id].reservation_number
                      IN  /\ rn \in {Strip(i) : i \in ReservationInputs}
                          /\ LStrip(rn) = rn
                          /\ RStrip(rn) = rn
                          /\ OpenReservation(rn)]_vars

C19_Witness ==
    /\ returned.op = "quote"
    /\ returned.result = "Quoted"
    /\ Cardinality(DOMAIN QUOTES) = 2
    /\ \E id \in DOMAIN QUOTES : QUOTES[id].reservation_number = <<"B">>

\* ------------------------------------------------- one request at a time
\* no call is in progress
Quiet == \A p \in Procs : loc[p].pc = "idle"

\* the server handling its requests one after the other, with nobody else
\* writing reservations.json: a call begins only when none is in progress
NextSeq ==
    \/ Tick
    \/ \E p \in Procs : Quiet /\ lookup_reservation(p)
    \/ \E p \in Procs : Quiet /\ quote_add_breakfast(p)
    \/ \E p \in Procs : Quiet /\ ConfirmValidate(p)
    \/ \E p \in Procs : ConfirmCharge(p)
    \/ \E p \in Procs : ConfirmCommit(p)

SpecSeq == Init /\ [][NextSeq]_vars

\* the captured payments of reservation rn
PaymentsFor(rn) ==
    {k \in 1..Len(payments) : payments[k].reservation_number = rn}

====
